---- MODULE Spec2Model ----
(***************************************************************************)
(* A model of the five-texases pipeline: the colour classifier and region  *)
(* highlighter (utils.py), the state filter and result extractor           *)
(* (parsing.py), the bar chart renderer (charts.py) and the orchestrator   *)
(* with its image files (map.py, utils.py).                                *)
(*                                                                         *)
(* Numbers.  A percentage is an integer count of thousandths of a percent: *)
(* 51.3 is 51300, -65.7 is -65700, the threshold 60 is 60000 and the       *)
(* value "just above 60" is 60001.  A cell of the table is such a decimal;  *)
(* the floats computed from the cells are held exactly (see Python floats). *)
(* Python's None is NoColor.                                                *)
(* Python lists are sequences, so Python index k is position k + 1.        *)
(***************************************************************************)
EXTENDS Integers, Sequences, FiniteSets, TLC

VARIABLES
    pc,           \* position of the running program
    value,        \* get_color: the margin passed in
    color,        \* get_color: what it returned
    data,         \* the table read from tx-data.xlsx (a sequence of rows)
    target,       \* get_data / get_results: the state passed in
    state_data,   \* what get_data returned
    results,      \* what get_results returned
    values,       \* create_chart: the two series passed in
    row_number,   \* create_chart: the index passed in
    chart,        \* create_chart: the figure it built and whether it was saved
    state_i,      \* main: position in STATES of the state being processed
    year_i,       \* main: position in YEARS of the year being processed
    file_names,   \* main: the accumulated frame list of the current state
    files         \* the image files on disk: name -> content

vars == <<pc, value, color, data, target, state_data, results, values,
          row_number, chart, state_i, year_i, file_names, files>>

colorVars == <<value, color>>
dataVars  == <<data, target, state_data, results>>
chartVars == <<values, row_number, chart>>
mainVars  == <<state_i, year_i, file_names, files>>

(***************************************************************************)
(* Bounds of the model.                                                    *)
(***************************************************************************)
\* get_color is tried on every multiple of 0.1 from -MaxTenths/10 to MaxTenths/10
MaxTenths == 1100
\* ... and on every value within NearEdge thousandths of a threshold
NearEdge == 2
\* the tables tried have 1 .. MaxRows rows
MaxRows == 2
\* create_chart is tried on every row_number in -MaxRowNumber .. MaxRowNumber
MaxRowNumber == 8

(***************************************************************************)
(* Program constants (utils.py, charts.py, parsing.py, map.py).            *)
(***************************************************************************)
COLORS_D == <<"#86B6F2", "#4389E3", "#1666CB", "#0645B4", "#002B84">>
COLORS_R == <<"#E27F90", "#CC2F4A", "#D40000", "#AA0000", "#800000">>
COLOR_GREY == "#D6D6D6"
THRESH_MARGIN == <<50000, 60000, 70000, 80000, 90000, 100000>>
BLUE == "#4389E3"
RED == "#CC2F4A"
LIGHT_BLUE == "#CBCFDC"
LIGHT_RED == "#DEB3B3"
STATES == <<"El Norte", "Gulfland", "New Texas", "Plainland", "Trinity">>
YEARS == <<"2000", "2004", "2008", "2012", "2016", "2020">>

NoColor == "None"

Abs(x) == IF x < 0 THEN -x ELSE x

(***************************************************************************)
(* utils.get_color                                                         *)
(***************************************************************************)
\* ScanBands with the band edges inclusive-low, exclusive-high
RECURSIVE ScanBandsLowInclusive(_, _, _, _)
ScanBandsLowInclusive(v, thresh, colors, i) ==
    IF i >= Len(thresh)
    THEN IF v > thresh[Len(thresh)] THEN colors[Len(colors)] ELSE NoColor
    ELSE IF thresh[i] <= Abs(v) /\ Abs(v) < thresh[i + 1]
         THEN colors[i]
         ELSE ScanBandsLowInclusive(v, thresh, colors, i + 1)

\* the for loop of get_color from pair i on: the first pair (thresh[i],
\* thresh[i+1]) with left < abs(value) <= right returns colors[i]; when the
\* loop ends, the last colour is returned only if value (not abs(value))
\* exceeds the last threshold, and otherwise the function falls off its end.
RECURSIVE ScanBands(_, _, _, _)
ScanBands(v, thresh, colors, i) ==
    IF i >= Len(thresh)
    THEN IF v > thresh[Len(thresh)] THEN colors[Len(colors)] ELSE NoColor
    ELSE IF thresh[i] < Abs(v) /\ Abs(v) <= thresh[i + 1]
         THEN colors[i]
         ELSE ScanBands(v, thresh, colors, i + 1)

get_color(v, thresh) ==
    LET colors == IF v < 0 THEN COLORS_D ELSE COLORS_R
    IN  ScanBands(v, thresh, colors, 1)

(***************************************************************************)
(* utils.grey_out                                                          *)
(***************************************************************************)
\* grey_out that never greys
grey_out_always(name, c, colored_name) == c

\* the colour, or color_grey (COLOR_GREY by default) for another state's row

grey_out(name, c, colored_name) ==
    IF name = colored_name THEN c ELSE COLOR_GREY

(***************************************************************************)
(* The classifier called on one margin.                                    *)
(***************************************************************************)
ThreshSet == {THRESH_MARGIN[i] : i \in 1..Len(THRESH_MARGIN)}

MarginInputs ==
    {k * 100 : k \in (-MaxTenths)..MaxTenths}
    \cup {s * (t + d) : s \in {-1, 1}, t \in ThreshSet, d \in (-NearEdge)..NearEdge}

IdleColor == value = 0 /\ color = NoColor
IdleData  == data = <<>> /\ target = "" /\ state_data = <<>> /\ results = <<>>
IdleChart == values = <<>> /\ row_number = 0 /\ chart = [status |-> "none"]
IdleMain  == state_i = 0 /\ year_i = 0 /\ file_names = <<>> /\ files = <<>>

InitColor ==
    /\ pc = "get_color"
    /\ value \in MarginInputs
    /\ color = NoColor
    /\ IdleData /\ IdleChart /\ IdleMain

GetColor ==
    /\ pc = "get_color"
    /\ color' = get_color(value, THRESH_MARGIN)
    /\ pc' = "get_color_done"
    /\ UNCHANGED <<value, dataVars, chartVars, mainVars>>

NextColor == GetColor

SpecColor == InitColor /\ [][NextColor]_vars

\* the ramp the sign of v selects, and the bands of the default threshold table
Ramp(v) == IF v < 0 THEN COLORS_D ELSE COLORS_R
InBand(v, i) == THRESH_MARGIN[i] < Abs(v) /\ Abs(v) <= THRESH_MARGIN[i + 1]
Bands == 1..(Len(THRESH_MARGIN) - 1)

\* C1: for every margin v with 50 < |v| <= 100, get_color(v) is the colour at
\* index i of the ramp the sign of v selects (COLORS_D for v < 0, COLORS_R for
\* v > 0), i being the one band with thresh[i] < |v| <= thresh[i+1]; 60 is in
\* band 0 and the next value above 60 in band 1; -65.7 gives #4389E3 and 51.3
\* gives #E27F90.
C1_BandColor ==
    (pc = "get_color_done" /\ 50000 < Abs(value) /\ Abs(value) <= 100000) =>
        /\ Cardinality({i \in Bands : InBand(value, i)}) = 1
        /\ \A i \in Bands : InBand(value, i) => color = Ramp(value)[i]
        /\ (value = 60000 => color = COLORS_R[1])
        /\ (value = 60001 => color = COLORS_R[2])
        /\ (value = -60000 => color = COLORS_D[1])
        /\ (value = -60001 => color = COLORS_D[2])
        /\ (value = -65700 => color = "#4389E3")
        /\ (value = 51300 => color = "#E27F90")

\* a classified margin just above a band edge, on the negative side
C1_Witness ==
    pc = "get_color_done" /\ value = -60001 /\ color = COLORS_D[2]

\* C2: for every margin v with |v| > 100, of either sign, get_color(v) is the
\* last colour of the ramp the sign of v selects.
C2_BeyondLastThreshold ==
    (pc = "get_color_done" /\ Abs(value) > 100000) =>
        color = Ramp(value)[Len(Ramp(value))]

(***************************************************************************)
(* Python floats.  Every float the program computes lies next to a decimal *)
(* with three places; it is held exactly, as the record [t, n, p] standing *)
(* for t/1000 + n/(125 * 2^p): t thousandths, plus the float's distance    *)
(* from that decimal.  n = 0 (then p = 0) when the float is the decimal,   *)
(* and otherwise n is odd or p = 0, so equal floats are equal records.     *)
(***************************************************************************)
RECURSIVE Pow2(_)
Pow2(k) == IF k = 0 THEN 1 ELSE 2 * Pow2(k - 1)

\* 2^k modulo m
RECURSIVE Pow2Mod(_, _)
Pow2Mod(k, m) == IF k = 0 THEN 1 % m ELSE (2 * Pow2Mod(k - 1, m)) % m

\* the binary exponent of v/1000, v >= 1: the e with 2^e <= v/1000 < 2^(e+1),
\* searched upwards from 0 or downwards from -1
RECURSIVE ExpUp(_, _)
ExpUp(v, e) == IF Pow2(e + 1) * 1000 <= v THEN ExpUp(v, e + 1) ELSE e

RECURSIVE ExpDown(_, _)
ExpDown(v, n) == IF v * Pow2(n) < 1000 THEN ExpDown(v, n + 1) ELSE -n

FloatExp(v) == IF v >= 1000 THEN ExpUp(v, 0) ELSE ExpDown(v, 1)

\* whether v/1000 is a power of two
IsPow2(v) ==
    LET e == FloatExp(v)
    IN  IF e >= 0 THEN Pow2(e) * 1000 = v ELSE v * Pow2(-e) = 1000

RECURSIVE Norm(_, _, _)
Norm(t, n, p) ==
    IF n = 0 THEN [t |-> t, n |-> 0, p |-> 0]
    ELSE IF n % 2 = 0 /\ p > 0 THEN Norm(t, n \div 2, p - 1)
    ELSE [t |-> t, n |-> n, p |-> p]

\* The float nearest to the real z = T/1000 + n/(125 * 2^p), T >= 1 (IEEE 754
\* double, round to nearest, ties to even).  With e the exponent of z and
\* s = 52 - e, the float is N / 2^s for the integer N nearest to z * 2^s.
\* T * 2^(s-3) = 125 * Q + rD gives z * 2^s = Q + rD/125 + n/(125 * 2^(p-s)),
\* so N = Q + R with R the integer nearest to A/B below (to the one making N
\* even on a tie), and the float is T/1000 + (125 * R - rD)/(125 * 2^s).
RoundToDouble(T, n, p) ==
    LET e    == FloatExp(T) - (IF n < 0 /\ IsPow2(T) THEN 1 ELSE 0)
        s    == 52 - e
        rD   == ((T % 125) * Pow2Mod(s - 3, 125)) % 125
        Qodd == ((T % 250) * Pow2Mod(s - 3, 250)) % 250 >= 125
        A    == IF n = 0 THEN rD
                ELSE IF s >= p THEN rD + n * Pow2(s - p)
                ELSE rD * Pow2(p - s) + n
        B    == IF n = 0 \/ s >= p THEN 125 ELSE 125 * Pow2(p - s)
        fl   == A \div B
        rem  == A - fl * B
        R    == IF 2 * rem < B THEN fl
                ELSE IF 2 * rem > B THEN fl + 1
                ELSE IF Qodd = (fl % 2 = 1) THEN fl ELSE fl + 1
    IN  Norm(T, 125 * R - rD, s)

FloatNeg(x) == [t |-> -x.t, n |-> -x.n, p |-> x.p]

FloatIsNeg(x) == x.t < 0 \/ (x.t = 0 /\ x.n < 0)

\* abs(x)
FloatAbs(x) == IF FloatIsNeg(x) THEN FloatNeg(x) ELSE x

\* float(i) of a cell holding the decimal v/1000: the float nearest to it
Lit(v) ==
    IF v = 0 THEN [t |-> 0, n |-> 0, p |-> 0]
    ELSE IF v > 0 THEN RoundToDouble(v, 0, 0)
    ELSE FloatNeg(RoundToDouble(-v, 0, 0))

\* 100 - x: the float nearest to the exact difference (a difference of
\* magnitude below 0.001 is a float itself)
Sub100(x) ==
    LET T == 100000 - x.t
    IN  IF T > 0 THEN RoundToDouble(T, -x.n, x.p)
        ELSE IF T < 0 THEN FloatNeg(RoundToDouble(-T, x.n, x.p))
        ELSE Norm(0, -x.n, x.p)

\* round(x, 2), as a count of hundredths.  Python rounds the float's exact
\* value: to the nearest hundredth, and to the even one only when the float
\* is exactly x.xx5; a float just below or above the decimal x.xx5 goes down
\* or up
Round2Abs(x) ==
    LET q == x.t \div 10
        r == x.t % 10
    IN  IF r < 5 THEN q
        ELSE IF r > 5 THEN q + 1
        ELSE IF x.n < 0 THEN q
        ELSE IF x.n > 0 THEN q + 1
        ELSE IF q % 2 = 0 THEN q ELSE q + 1

Round2(x) == IF FloatIsNeg(x) THEN -Round2Abs(FloatNeg(x)) ELSE Round2Abs(x)

(***************************************************************************)
(* parsing.get_data and parsing.get_results.                               *)
(* A table is a sequence of rows; a row's position stands for its index    *)
(* label, which boolean filtering keeps.  A row holds unit, state,         *)
(* is_state and years, its last six columns (the margins of YEARS).        *)
(***************************************************************************)
\* the mask without its last conjunct
conditions_no_exclusion(row, st) ==
    row.state = st \/ row.is_state = 1

\* the boolean mask of get_data, for one row
conditions(row, st) ==
    (row.state = st \/ row.is_state = 1) /\ row.unit # st

\* data[conditions]: the index labels of the rows kept, in table order
RECURSIVE Mask(_, _, _)
Mask(d, st, i) ==
    IF i > Len(d) THEN <<>>
    ELSE (IF conditions(d[i], st) THEN <<i>> ELSE <<>>) \o Mask(d, st, i + 1)

\* the loop over YEARS: each year cell becomes get_color of it, then grey_out
\* of the row's state, that colour and the state passed in
get_data(d, st) ==
    LET kept == Mask(d, st, 1)
    IN  [k \in 1..Len(kept) |->
            LET row == d[kept[k]]
            IN  [idx      |-> kept[k],
                 unit     |-> row.unit,
                 state    |-> row.state,
                 is_state |-> row.is_state,
                 years    |-> [y \in 1..Len(YEARS) |->
                                 grey_out(row.state,
                                          get_color(row.years[y], THRESH_MARGIN),
                                          st)]]]

\* data[data["unit"] == state]: the index labels of the matching rows
RECURSIVE UnitRows(_, _, _)
UnitRows(d, st, i) ==
    IF i > Len(d) THEN <<>>
    ELSE (IF d[i].unit = st THEN <<i>> ELSE <<>>) \o UnitRows(d, st, i + 1)

\* d_result without the abs
d_result_no_abs(x) == IF FloatIsNeg(x) THEN x ELSE Sub100(x)

\* the two list comprehensions of get_results, for one margin x (a float):
\* abs(i) if i < 0 else 100-i, and 100+i if i < 0 else i; for i < 0 the sum
\* 100 + i is the difference 100 - abs(i)
d_result(x) == IF FloatIsNeg(x) THEN FloatAbs(x) ELSE Sub100(x)

r_result(x) == IF FloatIsNeg(x) THEN Sub100(FloatNeg(x)) ELSE x

\* .iloc[0] of the matching rows (the caller checks there is one), float()
\* of its last six columns, and the two derived series
get_results(d, st) ==
    LET row == d[UnitRows(d, st, 1)[1]]
        n   == Len(row.years)
        raw == [k \in 1..6 |-> Lit(row.years[n - 6 + k])]
    IN  << [k \in 1..6 |-> d_result(raw[k])],
           [k \in 1..6 |-> r_result(raw[k])] >>

\* the inputs tried: two target states, a county, and three rows of margins,
\* one inside the bands (edges included), one outside them on both sides, and
\* one whose sums and differences with 100 are not the floats of their
\* decimals
DataStates == {"El Norte", "Gulfland"}
Units == DataStates \cup {"Bexar"}
YearRows ==
    { <<-65700, 51300, 60000, 60001, -100000, 50001>>,
      <<0, -50000, 30000, 120000, -120000, -49900>>,
      <<87655, 99985, 99995, -87655, -99995, -51305>> }
Rows == [unit : Units, state : DataStates, is_state : {0, 1}, years : YearRows]
Tables == UNION {[1..n -> Rows] : n \in 1..MaxRows}

InitData ==
    /\ pc = "get_data"
    /\ data \in Tables
    /\ target \in DataStates
    /\ state_data = <<>>
    /\ results = <<>>
    /\ IdleColor /\ IdleChart /\ IdleMain

\* state_data = parsing.get_data(data, state)
GetData ==
    /\ pc = "get_data"
    /\ state_data' = get_data(data, target)
    /\ pc' = "get_results"
    /\ UNCHANGED <<data, target, results, colorVars, chartVars, mainVars>>

\* state_results = parsing.get_results(data, state); .iloc[0] of an empty
\* selection raises IndexError
GetResults ==
    /\ pc = "get_results"
    /\ IF UnitRows(data, target, 1) # <<>>
       THEN results' = get_results(data, target) /\ pc' = "data_done"
       ELSE results' = results /\ pc' = "IndexError"
    /\ UNCHANGED <<data, target, state_data, colorVars, chartVars, mainVars>>

NextData == GetData \/ GetResults

SpecData == InitData /\ [][NextData]_vars

\* get_data has returned its table
Filtered == pc \in {"get_results", "data_done", "IndexError"}
LowMargin(m) == Abs(m) <= THRESH_MARGIN[1]
YearIdx == 1..Len(YEARS)

\* C3: whenever get_data classifies a year margin with |margin| <= 50 in a
\* selected row, the run ends with an error: get_data does not return a table
\* for the pipeline to continue with.
C3_UndefinedIsFatal ==
    (\E i \in 1..Len(data) :
        /\ (data[i].state = target \/ data[i].is_state = 1)
        /\ data[i].unit # target
        /\ \E y \in YearIdx : LowMargin(data[i].years[y]))
    => ~Filtered

\* C4: every year cell of every row get_data returns is the classified colour
\* of the row's original margin when the row's state is the target, and
\* COLOR_GREY when it is not, whatever the margin.
C4_CellColor ==
    Filtered =>
        \A k \in 1..Len(state_data) : \A y \in YearIdx :
            LET row  == data[state_data[k].idx]
                cell == state_data[k].years[y]
            IN  /\ state_data[k].state = row.state
                /\ (row.state = target =>
                        cell = get_color(row.years[y], THRESH_MARGIN))
                /\ (row.state # target => cell = COLOR_GREY)

\* a returned table with a coloured row of the target and a greyed row of
\* another state
C4_Witness ==
    /\ Filtered
    /\ \E k \in 1..Len(state_data) :
          /\ state_data[k].state = target
          /\ state_data[k].years[1] = "#4389E3"
    /\ \E k \in 1..Len(state_data) :
          /\ state_data[k].state # target
          /\ state_data[k].years[1] = COLOR_GREY
          /\ data[state_data[k].idx].years[1] = -65700

\* the aggregate row of a state is the row whose unit is the state's name
\* (as get_results finds it)
IsAggregateOf(row, st) == row.unit = st

\* C5: the rows get_data returns are exactly the input rows r with
\* (r.state = target or r.is_state = 1) that are not the target's aggregate
\* row, in table order: the target's aggregate row is never returned, every
\* other row with is_state set is, and so is every other row the target owns.
C5_FilterRows ==
    Filtered =>
        LET out == {state_data[k].idx : k \in 1..Len(state_data)}
        IN  /\ out = {i \in 1..Len(data) :
                        /\ data[i].state = target \/ data[i].is_state = 1
                        /\ ~IsAggregateOf(data[i], target)}
            /\ \A k \in 1..Len(state_data) :
                  /\ state_data[k].unit = data[state_data[k].idx].unit
                  /\ state_data[k].is_state = data[state_data[k].idx].is_state
            /\ \A j, k \in 1..Len(state_data) :
                  j < k => state_data[j].idx < state_data[k].idx
            /\ \A i \in 1..Len(data) :
                  /\ IsAggregateOf(data[i], target) => i \notin out
                  /\ (data[i].is_state = 1 /\ ~IsAggregateOf(data[i], target))
                        => i \in out
                  /\ (data[i].state = target /\ ~IsAggregateOf(data[i], target))
                        => i \in out

\* a table holding the target's aggregate row, left out, and another state's
\* aggregate row, returned
C5_Witness ==
    /\ Filtered
    /\ \E i \in 1..Len(data) :
          data[i].unit = target /\ data[i].state = target /\ data[i].is_state = 1
    /\ Len(state_data) = 1
    /\ state_data[1].is_state = 1
    /\ state_data[1].state # target

\* a + b, for floats a and b whose sum is positive
FloatAdd(a, b) ==
    LET pm == IF a.p > b.p THEN a.p ELSE b.p
        na == IF a.n = 0 THEN 0 ELSE a.n * Pow2(pm - a.p)
        nb == IF b.n = 0 THEN 0 ELSE b.n * Pow2(pm - b.p)
    IN  RoundToDouble(a.t + b.t, na + nb, pm)

\* C6: get_results returns two 6-element series with sideA[i] = |m[i]| and
\* sideB[i] = 100 + m[i] when m[i] < 0, sideA[i] = 100 - m[i] and
\* sideB[i] = m[i] otherwise, m being the six year margins of the state's
\* aggregate row, so sideA[i] + sideB[i] = 100 for every i (the float sum is
\* the float 100); -65.7 gives 65.7 / 34.3 and 51.3 gives 48.7 / 51.3.
C6_SeriesSum ==
    pc = "data_done" =>
        LET first == CHOOSE i \in 1..Len(data) :
                        /\ data[i].unit = target
                        /\ \A j \in 1..(i - 1) : data[j].unit # target
            m == data[first].years
        IN  /\ Len(results) = 2
            /\ Len(results[1]) = 6 /\ Len(results[2]) = 6
            /\ \A i \in 1..6 :
                  /\ results[1][i].t + results[2][i].t = 100000
                  /\ FloatAdd(results[1][i], results[2][i]) = Lit(100000)
                  /\ (m[i] < 0 =>
                        /\ results[1][i] = Lit(-m[i])
                        /\ results[2][i].t = 100000 + m[i])
                  /\ (m[i] >= 0 =>
                        /\ results[1][i].t = 100000 - m[i]
                        /\ results[2][i] = Lit(m[i]))
                  /\ (m[i] = -65700 =>
                        results[1][i] = Lit(65700) /\ results[2][i] = Lit(34300))
                  /\ (m[i] = 51300 =>
                        results[1][i] = Lit(48700) /\ results[2][i] = Lit(51300))

\* the series of an aggregate row with margins of both signs
C6_Witness ==
    /\ pc = "data_done"
    /\ results[1][1] = Lit(65700) /\ results[2][1] = Lit(34300)
    /\ results[1][2] = Lit(48700) /\ results[2][2] = Lit(51300)

(***************************************************************************)
(* charts.create_chart, with charts.draw_bar_chart and charts.add_annot.   *)
(***************************************************************************)
\* Python's list indexing, seq[k] for a list of n elements: the position
\* addressed, a negative k counting from the end, or 0 for an IndexError
PyIndex(n, k) ==
    IF 0 <= k /\ k < n THEN k + 1
    ELSE IF -n <= k /\ k < 0 THEN n + k + 1
    ELSE 0

\* colors = [[LIGHT_BLUE]*6, [LIGHT_RED]*6], then colors[i][row_number] =
\* [BLUE, RED][i] for both i; pos is the position row_number addresses
chart_colors(pos) ==
    << [k \in 1..6 |-> IF k = pos THEN BLUE ELSE LIGHT_BLUE],
       [k \in 1..6 |-> IF k = pos THEN RED ELSE LIGHT_RED] >>

\* one ax.barh call: a rectangle per label, from left[k], values_[k] wide
barh(vals, cols, left) ==
    [k \in 1..Len(vals) |->
        [x |-> left[k], width |-> vals[k], row |-> k - 1, color |-> cols[k]]]

\* ax.patches after draw_bar_chart: the first series drawn from 0, each later
\* series i drawn from left = values[i-1]
draw_bar_chart(vals, cols) ==
    barh(vals[1], cols[1], [k \in 1..Len(vals[1]) |-> Lit(0)])
    \o barh(vals[2], cols[2], vals[1])

\* add_annot: the text drawn at the centre of ax.patches[patch_number]; pos is
\* the position patch_number addresses
add_annot(text, pos, patches) ==
    [patch |-> pos,
     row   |-> patches[pos].row,
     text  |-> text]

\* create_chart annotating patch row_number twice
create_chart_same_patch(vals, rn) ==
    LET hi == PyIndex(6, rn)
        v0 == PyIndex(Len(vals[1]), rn)
        p0 == PyIndex(12, rn)
        v1 == PyIndex(Len(vals[2]), rn)
        p1 == PyIndex(12, rn)
    IN  IF hi = 0 \/ v0 = 0 \/ p0 = 0 \/ v1 = 0 \/ p1 = 0
        THEN [status |-> "IndexError"]
        ELSE LET patches == draw_bar_chart(vals, chart_colors(hi))
             IN  [status  |-> "saved",
                  patches |-> patches,
                  annots  |-> << add_annot(Round2(vals[1][v0]), p0, patches),
                                 add_annot(Round2(vals[2][v1]), p1, patches) >>]

\* create_chart, up to plt.savefig: an IndexError at any indexing ends it
\* before the figure is saved
create_chart(vals, rn) ==
    LET hi == PyIndex(6, rn)
        v0 == PyIndex(Len(vals[1]), rn)
        p0 == PyIndex(12, rn)
        v1 == PyIndex(Len(vals[2]), rn)
        p1 == PyIndex(12, rn + 6)
    IN  IF hi = 0 \/ v0 = 0 \/ p0 = 0 \/ v1 = 0 \/ p1 = 0
        THEN [status |-> "IndexError"]
        ELSE LET patches == draw_bar_chart(vals, chart_colors(hi))
             IN  [status  |-> "saved",
                  patches |-> patches,
                  annots  |-> << add_annot(Round2(vals[1][v0]), p0, patches),
                                 add_annot(Round2(vals[2][v1]), p1, patches) >>]

\* the series tried.  Written out as decimals (both sides the floats of
\* their decimals): those of a state's margins, and others whose third decimal
\* makes round(x, 2) round down, up, on a tie that is a float (48.125) and on
\* ties that are not (2.675 and 97.325).  And as get_results derives them
\* from a row of margins: 100 - 87.655 is a float just below 12.345
SideA ==
    { <<65700, 48700, 40000, 39999, 100000, 49999>>,
      <<48125, 51875, 33333, 66667, 12344, 99999>>,
      <<50000, 50000, 50000, 50000, 50000, 50000>>,
      <<10000, 20000, 30000, 40000, 55554, 60375>>,
      <<2675, 1005, 48695, 15, 25, 97325>>,
      <<5, 55555, 44445, 12345, 87655, 99995>> }
MarginRows ==
    { <<87655, 99985, 99995, -87655, -99995, -51305>>,
      <<-65700, 51300, 60000, 60001, -100000, 50001>> }
ChartValues ==
    { << [k \in 1..6 |-> Lit(a[k])], [k \in 1..6 |-> Lit(100000 - a[k])] >> :
        a \in SideA }
    \cup
    { << [k \in 1..6 |-> d_result(Lit(m[k]))],
         [k \in 1..6 |-> r_result(Lit(m[k]))] >> : m \in MarginRows }

InitChart ==
    /\ pc = "create_chart"
    /\ values \in ChartValues
    /\ row_number \in (-MaxRowNumber)..MaxRowNumber
    /\ chart = [status |-> "none"]
    /\ IdleColor /\ IdleData /\ IdleMain

CreateChart ==
    /\ pc = "create_chart"
    /\ chart' = create_chart(values, row_number)
    /\ pc' = "create_chart_done"
    /\ UNCHANGED <<values, row_number, colorVars, dataVars, mainVars>>

NextChart == CreateChart

SpecChart == InitChart /\ [][NextChart]_vars

\* C9: create_chart fails, saving no chart, for every row_number outside
\* 0..5, negative ones included.
C9_OutOfRangeFails ==
    (pc = "create_chart_done" /\ row_number \notin 0..5) =>
        chart.status = "IndexError"

\* C10: for row_number in 0..5 create_chart draws 12 segments, 6 of side A
\* then 6 of side B, segment k of side B starting at side A's width for year
\* k; the two segments of year row_number carry the accent colours and the 10
\* others the neutral ones; the two annotations are on patches row_number
\* and row_number + 6 and show values[0][row_number] and
\* values[1][row_number] rounded to 2 decimals.
C10_HighlightAndAnnotate ==
    (pc = "create_chart_done" /\ row_number \in 0..5) =>
        /\ chart.status = "saved"
        /\ Len(chart.patches) = 12
        /\ \A k \in 0..5 :
              LET a == chart.patches[k + 1]
                  b == chart.patches[k + 7]
              IN  /\ a.row = k /\ b.row = k
                  /\ a.x = Lit(0) /\ a.width = values[1][k + 1]
                  /\ b.x = values[1][k + 1] /\ b.width = values[2][k + 1]
                  /\ a.color = (IF k = row_number THEN "#4389E3" ELSE "#CBCFDC")
                  /\ b.color = (IF k = row_number THEN "#CC2F4A" ELSE "#DEB3B3")
        /\ Len(chart.annots) = 2
        /\ chart.annots[1].patch = row_number + 1
        /\ chart.annots[2].patch = row_number + 7
        /\ chart.annots[1].row = row_number
        /\ chart.annots[2].row = row_number
        /\ \A s \in 1..2 :
              LET v == values[s][row_number + 1].t
                  t == chart.annots[s].text
              IN  /\ 10 * t - v <= 5 /\ v - 10 * t <= 5
                  /\ chart.patches[chart.annots[s].patch].color \in {"#4389E3", "#CC2F4A"}

\* a chart of the first year whose values 2.675 and 97.325 are annotated 2.67
\* and 97.33, the floats lying below and above the decimals
C10_Witness ==
    /\ pc = "create_chart_done"
    /\ row_number = 2
    /\ values[1][3] = Sub100(Lit(99995)) /\ values[1][3] # Lit(5)
    /\ values[2][3] = Lit(99995)
    /\ chart.status = "saved"
    /\ chart.annots[1].text = 0
    /\ chart.annots[2].text = 10000
    /\ chart.annots[2].patch = 9

(***************************************************************************)
(* map.main and the image files it writes, reads and deletes               *)
(* (charts.draw_map, charts.create_chart, utils.combine_images,            *)
(* utils.add_text, utils.make_gif).  files maps the name of each image     *)
(* file on disk to its content.  A content records what it was rendered    *)
(* from: in main, state_data and results hold the values get_data and      *)
(* get_results returned for the named state.                               *)
(***************************************************************************)
Put(fs, name, content) ==
    [n \in (DOMAIN fs) \cup {name} |-> IF n = name THEN content ELSE fs[n]]

Remove(fs, names) == [n \in (DOMAIN fs) \ names |-> fs[n]]

\* for file in file_names: os.remove(file), from position i on: the files are
\* removed one by one in list order, and the first one that is not (or no
\* longer) on disk raises, leaving the files listed after it
RECURSIVE RemoveEach(_, _, _)
RemoveEach(fs, names, i) ==
    IF i > Len(names) THEN [files |-> fs, raised |-> FALSE]
    ELSE IF names[i] \in DOMAIN fs
         THEN RemoveEach(Remove(fs, {names[i]}), names, i + 1)
         ELSE [files |-> fs, raised |-> TRUE]

\* how many files of the list, from position i on, are read before one is
\* missing
RECURSIVE Readable(_, _, _)
Readable(fs, names, i) ==
    IF i > Len(names) \/ names[i] \notin DOMAIN fs THEN 0
    ELSE 1 + Readable(fs, names, i + 1)

MapName(year) == year \o "-map.png"
ChartName(year) == year \o "-chart.png"
FrameName(year) == year \o ".png"
GifName(state) == state \o ".gif"
Caption(state, year) == state \o ", " \o year

\* fig.write_image(map_name): the choropleth of one colour column of data
draw_map(fs, d, color_column, map_name) ==
    Put(fs, map_name, [kind |-> "map", data |-> d, column |-> color_column])

\* plt.savefig(name): the chart of the series, row row_number highlighted
save_chart(fs, vals, rn, name) ==
    Put(fs, name, [kind |-> "chart", values |-> vals, row_number |-> rn])

\* new_image.save(image_name): the images pasted left to right
save_combined(fs, names, image_name) ==
    Put(fs, image_name,
        [kind |-> "image", parts |-> [k \in 1..Len(names) |-> fs[names[k]]],
         text |-> <<>>])

\* combine_images as with delete_files=False
combine_images_keep(fs, names, image_name) ==
    IF Readable(fs, names, 1) < Len(names) \/ Len(names) = 0
    THEN [files |-> fs, raised |-> TRUE]
    ELSE [files |-> save_combined(fs, names, image_name), raised |-> FALSE]

\* combine_images: every image is opened (a missing one raises, and so does
\* an empty list at zip(*...)), they are pasted left to right and saved as
\* image_name, and then (delete_files defaults to True) removed one by one
combine_images(fs, names, image_name) ==
    IF Readable(fs, names, 1) < Len(names) \/ Len(names) = 0
    THEN [files |-> fs, raised |-> TRUE]
    ELSE RemoveEach(save_combined(fs, names, image_name), names, 1)

\* add_text: the image is opened, the text drawn on it, and saved in place
add_text(fs, file_name, text) ==
    [fs EXCEPT ![file_name].text = Append(@, text)]

\* the animation written when the first n files of the list were appended
write_gif(fs, names, gif_name, n) ==
    Put(fs, gif_name, [kind |-> "gif", frames |-> [k \in 1..n |-> fs[names[k]]]])

\* make_gif appending the files last to first
make_gif_reversed(fs, names, gif_name) ==
    LET n == Readable(fs, names, 1)
    IN  IF n < Len(names)
        THEN [files |-> write_gif(fs, names, gif_name, n), raised |-> TRUE,
              reading |-> TRUE]
        ELSE LET del == RemoveEach(
                           Put(fs, gif_name,
                               [kind |-> "gif",
                                frames |-> [k \in 1..n |-> fs[names[n + 1 - k]]]]),
                           names, 1)
             IN  [files |-> del.files, raised |-> del.raised, reading |-> FALSE]

\* make_gif: the writer appends each file's image in list order, a missing
\* file raising at its imread (reading: the animation then holds the frames
\* appended before it); then (delete_files defaults to True) the files of
\* the list are removed one by one
make_gif(fs, names, gif_name) ==
    LET n == Readable(fs, names, 1)
    IN  IF n < Len(names)
        THEN [files |-> write_gif(fs, names, gif_name, n), raised |-> TRUE,
              reading |-> TRUE]
        ELSE LET del == RemoveEach(write_gif(fs, names, gif_name, n), names, 1)
             IN  [files |-> del.files, raised |-> del.raised, reading |-> FALSE]

state == STATES[state_i]
year == YEARS[year_i]

InitMain ==
    /\ pc = "start"
    /\ state_i = 0 /\ year_i = 0
    /\ file_names = <<>>
    /\ files = <<>>
    /\ IdleColor /\ IdleData /\ IdleChart

\* read_json, read_excel, and the first state of the loop over STATES
Start ==
    /\ pc = "start"
    /\ state_i' = 1
    /\ pc' = "get_data"
    /\ UNCHANGED <<year_i, file_names, files, colorVars, dataVars, chartVars>>

\* state_data = parsing.get_data(data, state)
MainGetData ==
    /\ pc = "get_data"
    /\ state_data' = <<"state_data", state>>
    /\ pc' = "get_results"
    /\ UNCHANGED <<data, target, results, colorVars, chartVars, mainVars>>

\* state_results = parsing.get_results(data, state); file_names = []; the
\* first year of the loop over YEARS
MainGetResults ==
    /\ pc = "get_results"
    /\ results' = <<"state_results", state>>
    /\ file_names' = <<>>
    /\ year_i' = 1
    /\ pc' = "draw_map"
    /\ UNCHANGED <<data, target, state_data, state_i, files, colorVars, chartVars>>

\* charts.draw_map(geojson, state_data, "code", f"{year}", f"{year}-map.png")
DrawMap ==
    /\ pc = "draw_map"
    /\ files' = draw_map(files, state_data, year, MapName(year))
    /\ pc' = "create_chart"
    /\ UNCHANGED <<state_i, year_i, file_names, colorVars, dataVars, chartVars>>

\* charts.create_chart(state_results, i, f"{year}-chart.png")
MainCreateChart ==
    /\ pc = "create_chart"
    /\ files' = save_chart(files, results, year_i - 1, ChartName(year))
    /\ pc' = "combine_images"
    /\ UNCHANGED <<state_i, year_i, file_names, colorVars, dataVars, chartVars>>

\* utils.combine_images([f"{year}-map.png", f"{year}-chart.png"], f"{year}.png")
CombineImages ==
    /\ pc = "combine_images"
    /\ LET r == combine_images(files, <<MapName(year), ChartName(year)>>,
                               FrameName(year))
       IN  /\ files' = r.files
           /\ pc' = IF r.raised THEN "aborted" ELSE "add_text"
    /\ UNCHANGED <<state_i, year_i, file_names, colorVars, dataVars, chartVars>>

\* utils.add_text(f"{year}.png", (1100, 50), f"{state}, {year}", ...)
AddText ==
    /\ pc = "add_text"
    /\ IF FrameName(year) \in DOMAIN files
       THEN /\ files' = add_text(files, FrameName(year), Caption(state, year))
            /\ pc' = "append"
       ELSE /\ files' = files
            /\ pc' = "aborted"
    /\ UNCHANGED <<state_i, year_i, file_names, colorVars, dataVars, chartVars>>

\* file_names += [f"{year}.png"], and the next year, if any
AppendFrame ==
    /\ pc = "append"
    /\ file_names' = file_names \o <<FrameName(year)>>
    /\ IF year_i < Len(YEARS)
       THEN year_i' = year_i + 1 /\ pc' = "draw_map"
       ELSE year_i' = year_i /\ pc' = "make_gif"
    /\ UNCHANGED <<state_i, files, colorVars, dataVars, chartVars>>

\* utils.make_gif(file_names, f"{state}.gif"), print, and the next state, if
\* any.  When a read raises, whether the writer has already created the
\* animation file depends on the imageio version: either outcome may happen.
MakeGif ==
    /\ pc = "make_gif"
    /\ LET r == make_gif(files, file_names, GifName(state))
       IN  IF r.raised
           THEN /\ files' \in (IF r.reading THEN {files, r.files} ELSE {r.files})
                /\ state_i' = state_i
                /\ pc' = "aborted"
           ELSE /\ files' = r.files
                /\ state_i' = state_i + 1
                /\ pc' = IF state_i < Len(STATES) THEN "get_data" ELSE "done"
    /\ UNCHANGED <<year_i, file_names, colorVars, dataVars, chartVars>>

\* main catches nothing: an exception raised by the call about to be made
\* (a missing input file or font, a renderer failure) ends the run there
Abort ==
    /\ pc \in {"start", "get_data", "get_results", "draw_map", "create_chart",
               "combine_images", "add_text", "make_gif"}
    /\ pc' = "aborted"
    /\ UNCHANGED <<colorVars, dataVars, chartVars, mainVars>>

NextMain ==
    \/ Start \/ MainGetData \/ MainGetResults \/ DrawMap \/ MainCreateChart
    \/ CombineImages \/ AddText \/ AppendFrame \/ MakeGif \/ Abort

SpecMain == InitMain /\ [][NextMain]_vars

\* the frame of one state and year: its map and chart, side by side, captioned
ExpectedFrame(st, k) ==
    [kind  |-> "image",
     parts |-> << [kind |-> "map", data |-> <<"state_data", st>>,
                   column |-> YEARS[k]],
                  [kind |-> "chart", values |-> <<"state_results", st>>,
                   row_number |-> k - 1] >>,
     text  |-> << st \o ", " \o YEARS[k] >>]

StateIdx == 1..Len(STATES)
Gifs(n) == {STATES[s] \o ".gif" : s \in 1..n}

\* C7: a state's animation is assembled only after its six years have been
\* composited, and its frames are exactly the six frames of 2000, 2004, ...,
\* 2020 in that order, each composed from the map and chart rendered for
\* that state and year: no frame of another state's iteration enters it.
C7_FrameOrder ==
    \A s \in StateIdx :
        (STATES[s] \o ".gif") \in DOMAIN files =>
            /\ s < state_i
            /\ files[STATES[s] \o ".gif"].kind = "gif"
            /\ files[STATES[s] \o ".gif"].frames =
                  [k \in 1..6 |-> ExpectedFrame(STATES[s], k)]

\* the last state's animation, assembled from frame files whose names the
\* four states before it used too
C7_Witness ==
    /\ pc = "done"
    /\ "Trinity.gif" \in DOMAIN files
    /\ Len(files["Trinity.gif"].frames) = 6
    /\ files["Trinity.gif"].frames[6].parts[1].data = <<"state_data", "Trinity">>
    /\ files["Trinity.gif"].frames[1].parts[2].row_number = 0

\* C8: each map and chart image is deleted by the compositing step that
\* consumes it, each frame by the animation assembly of its state, so no
\* frame file exists when the next state's iteration begins, and when the
\* run completes the only image files left are the five animations.
C8_Transient ==
    pc # "aborted" =>
        /\ \A k \in 1..Len(YEARS) :
              /\ (YEARS[k] \o "-map.png") \in DOMAIN files =>
                    k = year_i /\ pc \in {"create_chart", "combine_images"}
              /\ (YEARS[k] \o "-chart.png") \in DOMAIN files =>
                    k = year_i /\ pc = "combine_images"
              /\ (YEARS[k] \o ".png") \in DOMAIN files =>
                    /\ pc \in {"draw_map", "create_chart", "combine_images",
                               "add_text", "append", "make_gif"}
                    /\ k <= year_i
        /\ pc \in {"add_text", "append"} => (YEARS[year_i] \o ".png") \in DOMAIN files
        /\ pc \in {"get_data", "get_results"} => DOMAIN files = Gifs(state_i - 1)
        /\ pc = "done" => DOMAIN files = Gifs(5)

\* the completed run, with the five animations and nothing else on disk
C8_Witness ==
    /\ pc = "done"
    /\ Cardinality(DOMAIN files) = 5
    /\ "El Norte.gif" \in DOMAIN files

====
